---- MODULE Spec2Model ----
(***************************************************************************)
(* Model of src/pipe/pipe.js: the pipe that detects the action folders a   *)
(* commit changed and creates or updates the matching remote custom tasks. *)
(*                                                                         *)
(* Strings that the code inspects character by character (the token) are   *)
(* sequences of one-character strings.  Paths are sequences of their "/"   *)
(* separated segments, so "actions/a/main.py" is <<"actions","a",          *)
(* "main.py">>; the blank line of the git output is the empty sequence.    *)
(***************************************************************************)
EXTENDS Naturals, Sequences, FiniteSets, TLC

VARIABLES
  \* ---- environment of one run of main ----
  envToken,        \* process.env.SA_TOKEN: [set, chars]
  urlValid,        \* whether SA_API_URL parses as a URL (new URL(...) does not throw)
  listing,         \* lines that `git log -m -1 --name-only` prints for the commit
  fs,              \* folder -> [config, main]: what the working tree holds
  \* ---- main / syncTask ----
  mainPc,          \* "start", "loop", "exited"
  exitCode,        \* "running", "0", "1"
  abortedAt,       \* index of the folder whose syncTask ended the process, 0 if none
  apiToken,        \* sanitizeToken(SA_TOKEN)
  changedFolders,  \* getChangedFolders()
  taskPc,          \* per folder index: "pending", "lookup", "create", "update", "done"
  taskId,          \* per folder index: result of checkTaskExists
  lookupOutcome,   \* per folder index: "none", "id", "noid", "neterr"
  changedFiles,    \* per folder index: result of getChangedFilesInFolder
  historyOk,       \* per folder index: whether that history query succeeded
  payloadError,    \* per folder index: the error generatePayload returned, or NoError
  sent,            \* every request handed to makeRequest, in order
  inflight,        \* indexes into sent of the requests not yet settled
  syncOutcome,     \* per folder index: "none", "2xx", "non2xx", "neterr"
  log,             \* set of <<folder index, event>> console lines
  \* ---- sanitizeToken applied on its own ----
  tok, out1, out2, tokStage,
  \* ---- getChangedFolders applied on its own ----
  gitLines, gitWorks, folders, folderStage

mainVars == <<envToken, urlValid, listing, fs, mainPc, exitCode, abortedAt, apiToken,
              changedFolders, taskPc, taskId, lookupOutcome, changedFiles, historyOk,
              payloadError, sent, inflight, syncOutcome, log>>
tokVars == <<tok, out1, out2, tokStage>>
folderVars == <<gitLines, gitWorks, folders, folderStage>>
vars == <<mainVars, tokVars, folderVars>>

\* ------------------------------------------------------------------ bounds
\* longest changed-file listing of a commit in the run of main
MaxFiles == 2
\* longest token body after the prefix
MaxBody == 2
\* longest changed-file listing handed to getChangedFolders on its own
MaxListing == 3

\* ------------------------------------------------------------------ helpers
Range(s) == {s[k] : k \in 1..Len(s)}

SeqsUpTo(S, n) == UNION {[1..k -> S] : k \in 0..n}

RECURSIVE Dedup(_)
\* insertion order of a JavaScript Set: each element once, at its first appearance
Dedup(s) ==
  IF s = <<>> THEN <<>>
  ELSE LET init == Dedup(SubSeq(s, 1, Len(s) - 1))
           last == s[Len(s)]
       IN IF last \in Range(init) THEN init ELSE Append(init, last)

\* ------------------------------------------------------------------ sanitizeToken
Whitespace == {" ", "\t", "\n"}

Null == [null |-> TRUE, chars |-> <<>>]
Str(cs) == [null |-> FALSE, chars |-> cs]

\* !token : null, undefined and "" are falsy
Falsy(token) == token.null \/ token.chars = <<>>

RECURSIVE SkipWhitespace(_)
\* \s+ is greedy: drop the whole leading run of whitespace
SkipWhitespace(cs) ==
  IF cs # <<>> /\ cs[1] \in Whitespace THEN SkipWhitespace(Tail(cs)) ELSE cs

\* /^[Bb]earer\s+/ matches at the start of cs
BearerPrefix(cs) ==
  /\ Len(cs) >= 7
  /\ cs[1] \in {"B", "b"}
  /\ SubSeq(cs, 2, 6) = <<"e", "a", "r", "e", "r">>
  /\ cs[7] \in Whitespace

\* token.replace(/^[Bb]earer\s+/, "")
StripBearer(cs) ==
  IF BearerPrefix(cs) THEN SkipWhitespace(SubSeq(cs, 7, Len(cs))) ELSE cs

RECURSIVE StripFirstRun(_)
\* the replace without its g flag: only the first run of whitespace goes
StripFirstRun(cs) ==
  IF cs = <<>> THEN <<>>
  ELSE IF cs[1] \in Whitespace THEN SkipWhitespace(cs)
  ELSE <<cs[1]>> \o StripFirstRun(Tail(cs))

\* cleanToken.replace(/\s+/g, "")
StripWhitespace(cs) == SelectSeq(cs, LAMBDA c : c \notin Whitespace)

sanitizeToken(token) ==
  IF Falsy(token) THEN <<>> ELSE StripWhitespace(StripBearer(token.chars))

\* ------------------------------------------------------------------ change detection
\* file.startsWith("actions/")
StartsWithActions(file) == Len(file) >= 2 /\ file[1] = "actions"

\* lines 115-124 with the history query's output; line 127 when the query throws
getChangedFolders(lines, ok) ==
  IF ~ok THEN <<>>
  ELSE LET hits == SelectSeq(lines, StartsWithActions)
       IN Dedup([k \in 1..Len(hits) |-> <<"actions", hits[k][2]>>])

\* file.trim() && file.startsWith(normalizedFolder), folder being actions/<child>
InFolder(file, folder) ==
  /\ file # <<>>
  /\ Len(file) > Len(folder)
  /\ SubSeq(file, 1, Len(folder)) = folder

\* lines 80-85 with the history query's output; line 88 when the query throws
getChangedFilesInFolder(folder, lines, ok) ==
  IF ~ok THEN <<>>
  ELSE LET hits == SelectSeq(lines, LAMBDA f : InFolder(f, folder))
       IN [k \in 1..Len(hits) |-> SubSeq(hits[k], Len(folder) + 1, Len(hits[k]))]

\* ------------------------------------------------------------------ config and payloads
requiredKeys == <<"description", "memory", "interpreter", "time_limit", "concurrency">>

NoError == [text |-> "", missing |-> <<>>]
Error(text) == [text |-> text, missing |-> <<>>]

InvalidConfigText == "Invalid config.yaml in"
InvalidYamlText == "Invalid YAML: "
NoConfigText == "No config.yaml found"
NoMainText == "No main.py file found"
TypeErrorText == "Cannot use 'in' operator to search for 'description' in undefined"

\* error.includes("Invalid config.yaml"), over the messages the code produces
IncludesInvalidConfig(error) == error.text = InvalidConfigText

\* yaml.load gives a mapping (its keys), or undefined for an empty document
CanUseIn(config) == config.kind = "mapping"

\* lines 134-158; `key in config` throws a TypeError when config is no object
validateConfig(config) ==
  IF ~CanUseIn(config) THEN [throws |-> TRUE, error |-> NoError]
  ELSE LET errors == SelectSeq(requiredKeys, LAMBDA key : key \notin config.keys)
       IN IF Len(errors) > 0
          THEN [throws |-> FALSE, error |-> [text |-> InvalidConfigText, missing |-> errors]]
          ELSE [throws |-> FALSE, error |-> NoError]

FullFields == {"name", "description", "memory", "time_limit", "concurrency", "config", "file"}
FileOnlyFields == {"file"}

Failed(error) == [error |-> error, name |-> "", fields |-> {}]
NoBody == Failed(NoError)

\* lines 163-220
generatePayload(folder, dir) ==
  IF dir.config.kind = "absent" THEN Failed(Error(NoConfigText))
  ELSE IF dir.config.kind = "syntax" THEN Failed(Error(InvalidYamlText))
  ELSE LET validation == validateConfig(dir.config)
       IN IF validation.throws THEN Failed(Error(TypeErrorText))
          ELSE IF validation.error # NoError THEN Failed(validation.error)
          ELSE IF ~dir.main THEN Failed(Error(NoMainText))
          ELSE [error |-> NoError, name |-> folder[Len(folder)], fields |-> FullFields]

\* lines 225-245
generateFileOnlyPayload(folder, dir) ==
  IF ~dir.main THEN Failed(Error(NoMainText))
  ELSE [error |-> NoError, name |-> "", fields |-> FileOnlyFields]

\* lines 388-391 without the length test
onlyPyFilesChangedNoLength(files) ==
  /\ \A k \in 1..Len(files) : files[k] = <<"main.py">>
  /\ ~ \E k \in 1..Len(files) : files[k] = <<"config.yaml">>

\* lines 388-391
onlyPyFilesChanged(files) ==
  /\ Len(files) > 0
  /\ \A k \in 1..Len(files) : files[k] = <<"main.py">>
  /\ ~ \E k \in 1..Len(files) : files[k] = <<"config.yaml">>

\* lines 393-404 never taking the file-only branch
patchPayloadAlwaysFull(files, folder, dir, fullPayload) == fullPayload

\* lines 393-404
patchPayload(files, folder, dir, fullPayload) ==
  IF onlyPyFilesChanged(files)
  THEN LET p == generateFileOnlyPayload(folder, dir)
       IN IF p.error # NoError THEN fullPayload ELSE p
  ELSE fullPayload

\* line 309 and the catch of line 311: the id, or null
ParseId(outcome) == IF outcome = "id" THEN "id" ELSE "null"

\* the body of the POST of lines 362-375, sent the file-only payload instead
createPayloadFileOnly(folder, dir, fullPayload) == generateFileOnlyPayload(folder, dir)

\* the body of the POST of lines 362-375
createPayload(folder, dir, fullPayload) == fullPayload

\* lines 428-432 rethrowing what they catch
AfterSyncOutcomeRethrow(outcome) == IF outcome = "neterr" THEN "abort" ELSE "continue"

\* lines 377-383, 420-432: a non-2xx status is logged, a rejection is caught and logged
AfterSyncOutcome(outcome) == "continue"

\* the loop of main calling syncTask without awaiting it
AwaitedNotAwaited(pc) == pc # "pending"

\* line 454: `await syncTask(...)` resumes the loop when the task's promise has settled
Awaited(pc) == pc = "done"

\* lines 325-334 skipping only on a missing config.yaml
SkipReasonConfigOnly(dir) ==
  IF dir.config.kind = "absent" THEN "skip-no-config" ELSE "none"

\* lines 325-334
SkipReason(dir) ==
  IF dir.config.kind = "absent" THEN "skip-no-config"
  ELSE IF ~dir.main THEN "skip-no-main"
  ELSE "none"

\* ------------------------------------------------------------------ inputs of a run
BearerToken == <<"B", "e", "a", "r", "e", "r", " ", "x", "\n">>

\* process.env.SA_TOKEN: unset, empty, or a token
EnvTokens == {Null, Str(<<>>), Str(BearerToken)}

\* line 15: process.env?.SA_TOKEN || null
SA_TOKEN(env) == IF Falsy(env) THEN Null ELSE env

\* the paths a commit of the modelled repository can touch
FileUniverse ==
  { <<"actions", "a", "config.yaml">>,
    <<"actions", "a", "main.py">>,
    <<"actions", "b", "main.py">>,
    <<"actions", "b", "util.py">>,
    <<"actions", "README.md">>,
    <<"other", "file.txt">> }

DirA == <<"actions", "a">>
DirB == <<"actions", "b">>
DirReadme == <<"actions", "README.md">>
Dirs == {DirA, DirB, DirReadme}

Absent == [kind |-> "absent", keys |-> {}]
SyntaxError == [kind |-> "syntax", keys |-> {}]
EmptyDocument == [kind |-> "undefined", keys |-> {}]
Mapping(keys) == [kind |-> "mapping", keys |-> keys]

\* what config.yaml of a folder can be: missing, unparsable, empty, or a mapping
ConfigDocs ==
  { Absent, SyntaxError, EmptyDocument,
    Mapping(Range(requiredKeys) \cup {"requirements"}),
    Mapping(Range(requiredKeys) \ {"memory", "concurrency"}),
    Mapping({}) }

DirContents == [config : ConfigDocs, main : BOOLEAN]
\* actions/README.md is a file: nothing exists below it
NoDir == [config |-> Absent, main |-> FALSE]

Tasks == 1..Len(changedFolders)

InitMain ==
  /\ envToken \in EnvTokens
  /\ urlValid \in BOOLEAN
  /\ listing \in SeqsUpTo(FileUniverse, MaxFiles)
  /\ fs \in {f \in [Dirs -> DirContents] :
               /\ f[DirReadme] = NoDir
               /\ \A d \in {DirA, DirB} : d \notin Range(getChangedFolders(listing, TRUE))
                                             => f[d] = NoDir}
  /\ mainPc = "start"
  /\ exitCode = "running"
  /\ abortedAt = 0
  /\ apiToken = <<>>
  /\ changedFolders = <<>>
  /\ taskPc = <<>>
  /\ taskId = <<>>
  /\ lookupOutcome = <<>>
  /\ changedFiles = <<>>
  /\ historyOk = <<>>
  /\ payloadError = <<>>
  /\ sent = <<>>
  /\ inflight = {}
  /\ syncOutcome = <<>>
  /\ log = {}

\* process.exit(1), or the rejection of main() reaching line 460
Exit1(i) ==
  /\ exitCode' = "1"
  /\ mainPc' = "exited"
  /\ abortedAt' = i

Request(i, method, name, id, body) ==
  [task |-> i, method |-> method, name |-> name, id |-> id, body |-> body,
   auth |-> apiToken]

\* makeRequest: the request leaves; its promise settles in a later step
Send(req) ==
  /\ sent' = Append(sent, req)
  /\ inflight' = inflight \cup {Len(sent) + 1}

\* lines 438-450: the token check, sanitizeToken, getChangedFolders
MainStart ==
  /\ mainPc = "start"
  /\ IF Falsy(SA_TOKEN(envToken))
     THEN /\ Exit1(0)
          /\ UNCHANGED <<apiToken, changedFolders, taskPc, taskId, lookupOutcome,
                         changedFiles, historyOk, payloadError, syncOutcome>>
     ELSE \E ok \in BOOLEAN :
            LET found == getChangedFolders(listing, ok)
                each(v) == [k \in 1..Len(found) |-> v]
            IN /\ apiToken' = sanitizeToken(SA_TOKEN(envToken))
               /\ changedFolders' = found
               /\ taskPc' = each("pending")
               /\ taskId' = each("null")
               /\ lookupOutcome' = each("none")
               /\ changedFiles' = each(<<>>)
               /\ historyOk' = each(TRUE)
               /\ payloadError' = each(NoError)
               /\ syncOutcome' = each("none")
               /\ mainPc' = "loop"
               /\ UNCHANGED <<exitCode, abortedAt>>
  /\ UNCHANGED <<envToken, urlValid, listing, fs, sent, inflight, log>>

\* lines 320-355: syncTask from its call to its first await
SyncTaskBegin(i) ==
  /\ mainPc = "loop"
  /\ i \in Tasks
  /\ taskPc[i] = "pending"
  /\ \A j \in 1..(i - 1) : Awaited(taskPc[j])
  /\ LET folder == changedFolders[i]
         dir == fs[folder]
         fullPayload == generatePayload(folder, dir)
     IN IF SkipReason(dir) # "none"
        THEN /\ log' = log \cup {<<i, SkipReason(dir)>>}
             /\ taskPc' = [taskPc EXCEPT ![i] = "done"]
             /\ UNCHANGED <<payloadError, sent, inflight, mainPc, exitCode, abortedAt>>
        ELSE IF fullPayload.error # NoError
        THEN /\ log' = log \cup {<<i, "error-processing">>}
             /\ payloadError' = [payloadError EXCEPT ![i] = fullPayload.error]
             /\ IF IncludesInvalidConfig(fullPayload.error)
                THEN Exit1(i) /\ UNCHANGED taskPc
                ELSE /\ taskPc' = [taskPc EXCEPT ![i] = "done"]
                     /\ UNCHANGED <<mainPc, exitCode, abortedAt>>
             /\ UNCHANGED <<sent, inflight>>
        ELSE IF ~urlValid
        THEN \* line 294: new URL(SA_API_URL) throws outside the try
             /\ Exit1(i)
             /\ log' = log \cup {<<i, "fatal">>}
             /\ UNCHANGED <<taskPc, payloadError, sent, inflight>>
        ELSE /\ Send(Request(i, "GET", fullPayload.name, "null", NoBody))
             /\ taskPc' = [taskPc EXCEPT ![i] = "lookup"]
             /\ log' = log \cup {<<i, "checking">>}
             /\ UNCHANGED <<payloadError, mainPc, exitCode, abortedAt>>
  /\ UNCHANGED <<envToken, urlValid, listing, fs, apiToken, changedFolders, taskId,
                 lookupOutcome, changedFiles, historyOk, syncOutcome>>

\* lines 308-314 and 357-419: the lookup settles; syncTask runs to its second await
LookupSettles(i) ==
  /\ mainPc = "loop"
  /\ i \in Tasks
  /\ taskPc[i] = "lookup"
  /\ \E r \in inflight, outcome \in {"id", "noid", "neterr"}, ok \in BOOLEAN :
       LET folder == changedFolders[i]
           dir == fs[folder]
           fullPayload == generatePayload(folder, dir)
           id == ParseId(outcome)
           files == getChangedFilesInFolder(folder, listing, ok)
       IN /\ sent[r].task = i /\ sent[r].method = "GET"
          /\ lookupOutcome' = [lookupOutcome EXCEPT ![i] = outcome]
          /\ taskId' = [taskId EXCEPT ![i] = id]
          /\ IF id = "null"
             THEN /\ sent' = Append(sent, Request(i, "POST", "", "null",
                                                  createPayload(folder, dir, fullPayload)))
                  /\ taskPc' = [taskPc EXCEPT ![i] = "create"]
                  /\ log' = log \cup {<<i, "creating">>}
                  /\ UNCHANGED <<changedFiles, historyOk>>
             ELSE /\ changedFiles' = [changedFiles EXCEPT ![i] = files]
                  /\ historyOk' = [historyOk EXCEPT ![i] = ok]
                  /\ sent' = Append(sent, Request(i, "PATCH", "", id,
                                                  patchPayload(files, folder, dir, fullPayload)))
                  /\ taskPc' = [taskPc EXCEPT ![i] = "update"]
                  /\ log' = log \cup {<<i, "updating">>}
          /\ inflight' = (inflight \ {r}) \cup {Len(sent) + 1}
  /\ UNCHANGED <<envToken, urlValid, listing, fs, mainPc, exitCode, abortedAt, apiToken,
                 changedFolders, payloadError, syncOutcome>>

\* lines 377-383, 420-432: the create or update settles; syncTask returns
SyncSettles(i) ==
  /\ mainPc = "loop"
  /\ i \in Tasks
  /\ taskPc[i] \in {"create", "update"}
  /\ \E r \in inflight, outcome \in {"2xx", "non2xx", "neterr"} :
       /\ sent[r].task = i /\ sent[r].method \in {"POST", "PATCH"}
       /\ inflight' = inflight \ {r}
       /\ syncOutcome' = [syncOutcome EXCEPT ![i] = outcome]
       /\ log' = log \cup {<<i, IF outcome = "2xx" THEN "success" ELSE "sync-error">>}
       /\ IF AfterSyncOutcome(outcome) = "continue"
          THEN /\ taskPc' = [taskPc EXCEPT ![i] = "done"]
               /\ UNCHANGED <<mainPc, exitCode, abortedAt>>
          ELSE Exit1(i) /\ UNCHANGED taskPc
  /\ UNCHANGED <<envToken, urlValid, listing, fs, apiToken, changedFolders, taskId,
                 lookupOutcome, changedFiles, historyOk, payloadError, sent>>

\* lines 453-456: the loop ends and main resolves; the process exits with 0
MainFinish ==
  /\ mainPc = "loop"
  /\ \A j \in Tasks : taskPc[j] = "done"
  /\ mainPc' = "exited"
  /\ exitCode' = "0"
  /\ UNCHANGED <<envToken, urlValid, listing, fs, abortedAt, apiToken, changedFolders,
                 taskPc, taskId, lookupOutcome, changedFiles, historyOk, payloadError,
                 sent, inflight, syncOutcome, log>>

\* ------------------------------------------------------------------ sanitizeToken alone
Bodies == SeqsUpTo({"x", " ", "\n"}, MaxBody)

\* tokens: optional leading whitespace, a prefix in some letter case, a separator, a body
TokenInputs ==
  {Null} \cup
  { Str(lead \o pre \o sep \o body) :
      lead \in {<<>>, <<" ">>},
      pre \in { <<>>,
                <<"B", "e", "a", "r", "e", "r">>,
                <<"b", "e", "a", "r", "e", "r">>,
                <<"B", "E", "A", "R", "E", "R">> },
      sep \in {<<>>, <<" ">>, <<"\t", "\n">>},
      body \in Bodies }

MainIdle ==
  /\ envToken = Null /\ urlValid = TRUE /\ listing = <<>>
  /\ fs = [d \in Dirs |-> NoDir]
  /\ mainPc = "off" /\ exitCode = "running" /\ abortedAt = 0 /\ apiToken = <<>>
  /\ changedFolders = <<>> /\ taskPc = <<>> /\ taskId = <<>> /\ lookupOutcome = <<>>
  /\ changedFiles = <<>> /\ historyOk = <<>> /\ payloadError = <<>> /\ sent = <<>>
  /\ inflight = {} /\ syncOutcome = <<>> /\ log = {}

\* sanitizeToken(t)
SanitizeOnce ==
  /\ tokStage = "input"
  /\ out1' = sanitizeToken(tok)
  /\ tokStage' = "once"
  /\ UNCHANGED <<tok, out2>>

\* sanitizeToken(sanitizeToken(t))
SanitizeTwice ==
  /\ tokStage = "once"
  /\ out2' = sanitizeToken(Str(out1))
  /\ tokStage' = "twice"
  /\ UNCHANGED <<tok, out1>>

\* ------------------------------------------------------------------ getChangedFolders alone
LineUniverse == FileUniverse \cup {<<>>, <<"actions", "b", "lib", "util.py">>}

\* getChangedFolders()
DetectFolders ==
  /\ folderStage = "input"
  /\ folders' = getChangedFolders(gitLines, gitWorks)
  /\ folderStage' = "done"
  /\ UNCHANGED <<gitLines, gitWorks>>

TokIdle == tok = Null /\ out1 = <<>> /\ out2 = <<>> /\ tokStage = "off"
FolderIdle == gitLines = <<>> /\ gitWorks = TRUE /\ folders = <<>> /\ folderStage = "off"

Init == InitMain /\ TokIdle /\ FolderIdle

Next ==
  \/ MainStart /\ UNCHANGED <<tokVars, folderVars>>
  \/ \E i \in Tasks : SyncTaskBegin(i) /\ UNCHANGED <<tokVars, folderVars>>
  \/ \E i \in Tasks : LookupSettles(i) /\ UNCHANGED <<tokVars, folderVars>>
  \/ \E i \in Tasks : SyncSettles(i) /\ UNCHANGED <<tokVars, folderVars>>
  \/ MainFinish /\ UNCHANGED <<tokVars, folderVars>>

Spec == Init /\ [][Next]_vars

InitToken ==
  /\ MainIdle /\ FolderIdle
  /\ tok \in TokenInputs
  /\ out1 = <<>> /\ out2 = <<>>
  /\ tokStage = "input"

NextToken ==
  \/ SanitizeOnce /\ UNCHANGED <<mainVars, folderVars>>
  \/ SanitizeTwice /\ UNCHANGED <<mainVars, folderVars>>

SpecToken == InitToken /\ [][NextToken]_vars

InitFolders ==
  /\ MainIdle /\ TokIdle
  /\ gitLines \in SeqsUpTo(LineUniverse, MaxListing)
  /\ gitWorks \in BOOLEAN
  /\ folders = <<>>
  /\ folderStage = "input"

NextFolders == DetectFolders /\ UNCHANGED <<mainVars, tokVars>>

SpecFolders == InitFolders /\ [][NextFolders]_vars

\* ------------------------------------------------------------------ vocabulary of the claims
RequestsOf(i) == {r \in 1..Len(sent) : sent[r].task = i}
RequestsBy(i, method) == {r \in RequestsOf(i) : sent[r].method = method}

\* syncTask was called for folder i
Processed(i) == taskPc[i] # "pending" \/ abortedAt = i

DirOf(i) == fs[changedFolders[i]]

MissingKeys(config) == Range(requiredKeys) \ config.keys

\* the paths of the commit below a folder, relative to it
CommitFilesOf(folder) ==
  { SubSeq(l, 3, Len(l)) : l \in {m \in Range(listing) : Len(m) >= 3 /\ SubSeq(m, 1, 2) = folder} }

MainPy == <<"main.py">>
ConfigYaml == <<"config.yaml">>

\* C1: a PATCH (sent only after the lookup returned an id) carries the file-only payload
\* when the changed files of the folder are only main.py, and the full payload when
\* config.yaml is among the changed files.
C1_PatchPayloadChoice ==
  \A r \in 1..Len(sent) :
    sent[r].method = "PATCH" =>
      LET i == sent[r].task
          files == Range(changedFiles[i])
      IN /\ lookupOutcome[i] = "id"
         /\ files = {MainPy} => sent[r].body.fields = FileOnlyFields
         /\ ConfigYaml \in files => sent[r].body.fields = FullFields
         /\ (historyOk[i] /\ CommitFilesOf(changedFolders[i]) = {MainPy})
              => sent[r].body.fields = FileOnlyFields
         /\ ConfigYaml \in CommitFilesOf(changedFolders[i])
              => sent[r].body.fields = FullFields

\* both cases of C1 in one run: a file-only PATCH for a folder whose only changed file
\* is main.py, and a full PATCH for a folder whose config.yaml changed
C1_Witness ==
  /\ \E r \in 1..Len(sent) :
       /\ sent[r].method = "PATCH"
       /\ CommitFilesOf(changedFolders[sent[r].task]) = {MainPy}
       /\ sent[r].body.fields = FileOnlyFields
  /\ \E r \in 1..Len(sent) :
       /\ sent[r].method = "PATCH"
       /\ ConfigYaml \in CommitFilesOf(changedFolders[sent[r].task])
       /\ sent[r].body.fields = FullFields

\* a folder with both files whose parsed config.yaml lacks a required key; the empty
\* document lacks all five
LacksRequiredKey(dir) ==
  /\ dir.main
  /\ dir.config.kind \in {"mapping", "undefined"}
  /\ MissingKeys(dir.config) # {}

\* C2: for every processed folder with both files whose parsed config.yaml lacks a
\* required key (the empty document included), generatePayload's error names every
\* missing key, the run ends with exit code 1, and no request is issued for the folder.
C2_MissingKeysAreFatal ==
  \A i \in Tasks :
    (Processed(i) /\ LacksRequiredKey(DirOf(i))) =>
      /\ payloadError[i].text = InvalidConfigText
      /\ Range(payloadError[i].missing) = MissingKeys(DirOf(i).config)
      /\ exitCode = "1" /\ abortedAt = i
      /\ RequestsOf(i) = {}

\* C3: a YAML syntax error in a processed folder's config.yaml ends the run with a
\* non-zero exit code.
C3_InvalidYamlIsFatal ==
  \A i \in Tasks :
    (Processed(i) /\ DirOf(i).main /\ DirOf(i).config.kind = "syntax") =>
      /\ exitCode = "1" /\ abortedAt = i

FailedSync(i) == syncOutcome[i] \in {"non2xx", "neterr"}

\* required-key validation fails for folder i
FailsValidation(i) ==
  /\ DirOf(i).main
  /\ DirOf(i).config.kind = "mapping"
  /\ MissingKeys(DirOf(i).config) # {}

\* C4: a failed create or update of folder i does not end the run: syncTask returns,
\* every later folder is processed (up to a folder that fails required-key validation),
\* and when no folder fails that validation the process ends with exit code 0.
C4_SyncFailureNotFatal ==
  \A i \in Tasks :
    FailedSync(i) =>
      /\ taskPc[i] = "done"
      /\ abortedAt # i
      /\ mainPc = "exited" =>
           \/ exitCode = "0" /\ \A j \in Tasks : taskPc[j] = "done"
           \/ /\ exitCode = "1" /\ abortedAt > i /\ FailsValidation(abortedAt)
              /\ \A j \in (i + 1)..(abortedAt - 1) : taskPc[j] = "done"
      /\ (mainPc = "exited" /\ ~ \E j \in Tasks : FailsValidation(j)) => exitCode = "0"

\* the create of one folder met a network error, a later folder still had its
\* requests, and the process ended with 0
C4_Witness ==
  /\ mainPc = "exited" /\ exitCode = "0"
  /\ \E i \in Tasks :
       /\ syncOutcome[i] = "neterr"
       /\ \E j \in Tasks : j > i /\ RequestsBy(j, "GET") # {} /\ syncOutcome[j] = "non2xx"

Skippable(dir) == dir.config.kind = "absent" \/ ~dir.main

\* C5: a processed folder without config.yaml, or with config.yaml and without main.py,
\* is logged as skipped, gets no request, and does not end the run: the loop goes on
\* to the folders after it.
C5_SkipMissingFiles ==
  \A i \in Tasks :
    (Processed(i) /\ Skippable(DirOf(i))) =>
      /\ taskPc[i] = "done"
      /\ \E reason \in {"skip-no-config", "skip-no-main"} : <<i, reason>> \in log
      /\ RequestsOf(i) = {}
      /\ abortedAt # i
      /\ mainPc = "exited" => (abortedAt > i \/ \A j \in Tasks : taskPc[j] = "done")

\* a folder with config.yaml and no main.py was skipped and the next folder got its lookup
C5_Witness ==
  \E i \in Tasks :
    /\ <<i, "skip-no-main">> \in log
    /\ DirOf(i).config.kind = "mapping"
    /\ \E j \in Tasks : j > i /\ RequestsBy(j, "GET") # {}

\* C6: when the lookup of folder i yields no id (no id in the response, or a network
\* error), exactly one POST with the full payload and no PATCH is issued for it, the
\* error does not end the run, and no POST ever carries the file-only payload.
C6_NoIdMeansOneFullPost ==
  /\ \A i \in Tasks :
       lookupOutcome[i] \in {"noid", "neterr"} =>
         /\ Cardinality(RequestsBy(i, "POST")) = 1
         /\ \A r \in RequestsBy(i, "POST") : sent[r].body.fields = FullFields
         /\ RequestsBy(i, "PATCH") = {}
         /\ abortedAt # i
  /\ \A r \in 1..Len(sent) :
       sent[r].method = "POST" => sent[r].body.fields = FullFields

\* a lookup that failed with a network error was followed by the POST
C6_Witness ==
  \E i \in Tasks :
    /\ lookupOutcome[i] = "neterr"
    /\ RequestsBy(i, "POST") # {}
    /\ taskPc[i] = "done"

\* C9: folders are processed one at a time in the order of changedFolders: at most one
\* request is outstanding, it is the latest one issued, requests are issued in folder
\* order, and a folder is begun only when every folder before it is done.
C9_Sequential ==
  /\ Cardinality(inflight) <= 1
  /\ inflight \subseteq {Len(sent)}
  /\ \A r, q \in 1..Len(sent) : r < q => sent[r].task <= sent[q].task
  /\ \A i \in Tasks : Processed(i) => \A j \in 1..(i - 1) : taskPc[j] = "done"

\* the second folder's request is outstanding after both requests of the first
C9_Witness ==
  /\ Len(changedFolders) = 2
  /\ Cardinality(RequestsOf(1)) = 2
  /\ RequestsOf(2) # {}
  /\ inflight # {}

\* C10: for a folder whose remote action exists, an empty result of
\* getChangedFilesInFolder (a failed history query gives one) sends the PATCH with the
\* full payload; the file-only payload is sent only for a non-empty list whose every
\* entry is main.py.
C10_EmptyChangeSetIsFull ==
  \A r \in 1..Len(sent) :
    sent[r].method = "PATCH" =>
      LET i == sent[r].task
      IN /\ ~historyOk[i] => changedFiles[i] = <<>>
         /\ changedFiles[i] = <<>> => sent[r].body.fields = FullFields
         /\ sent[r].body.fields = FileOnlyFields =>
              /\ Len(changedFiles[i]) > 0
              /\ \A k \in 1..Len(changedFiles[i]) : changedFiles[i][k] = MainPy
         /\ sent[r].body.fields \in {FullFields, FileOnlyFields}

\* the history query failed for a folder whose commit changed only main.py, and the
\* PATCH carried the full payload
C10_Witness ==
  \E r \in 1..Len(sent) :
    /\ sent[r].method = "PATCH"
    /\ ~historyOk[sent[r].task]
    /\ CommitFilesOf(changedFolders[sent[r].task]) = {MainPy}
    /\ sent[r].body.fields = FullFields

\* ---- sanitizeToken
Lower(c) ==
  CASE c = "B" -> "b" [] c = "E" -> "e" [] c = "A" -> "a" [] c = "R" -> "r" [] OTHER -> c

RECURSIVE WithoutWhitespace(_)
WithoutWhitespace(cs) ==
  IF cs = <<>> THEN <<>>
  ELSE IF cs[1] \in Whitespace THEN WithoutWhitespace(Tail(cs))
  ELSE <<cs[1]>> \o WithoutWhitespace(Tail(cs))

\* the string starts with "Bearer" in any letter case and a whitespace character
AnyCaseBearer(cs) ==
  /\ Len(cs) >= 7
  /\ [k \in 1..6 |-> Lower(cs[k])] = <<"b", "e", "a", "r", "e", "r">>
  /\ cs[7] \in Whitespace

\* the string starts with "Bearer" or "bearer" and a whitespace character
BearerOrbearer(cs) ==
  /\ AnyCaseBearer(cs)
  /\ SubSeq(cs, 2, 6) = <<"e", "a", "r", "e", "r">>

AfterPrefix(cs) == SubSeq(cs, 8, Len(cs))

\* C7 as stated: for a token with a "Bearer " prefix in any letter case the result is
\* the rest of the token without whitespace, and sanitizing twice gives the same.
C7_AnyCasePrefix ==
  /\ (tokStage # "input" /\ ~tok.null /\ AnyCaseBearer(tok.chars))
       => out1 = WithoutWhitespace(AfterPrefix(tok.chars))
  /\ tokStage = "twice" => out2 = out1

\* C7 amended: for a token that starts with "Bearer" or "bearer" (first letter in
\* either case, the rest lower-case) and a whitespace character, the result is the
\* rest of the token without whitespace; the result of any token holds no whitespace;
\* and sanitizing twice gives the same.
C7_BearerPrefixAndIdempotent ==
  /\ (tokStage # "input" /\ ~tok.null /\ BearerOrbearer(tok.chars))
       => out1 = WithoutWhitespace(AfterPrefix(tok.chars))
  /\ tokStage # "input" => \A k \in 1..Len(out1) : out1[k] \notin Whitespace
  /\ tokStage = "twice" => out2 = out1

\* "bearer \t\nx x"-like input: lower-case prefix, whitespace runs, sanitized twice
C7_Witness ==
  /\ tokStage = "twice"
  /\ ~tok.null /\ BearerOrbearer(tok.chars) /\ tok.chars[1] = "b"
  /\ \E k \in 9..Len(tok.chars) : tok.chars[k] \in Whitespace
  /\ out1 = <<"x">> /\ out2 = <<"x">>

\* ---- getChangedFolders
\* the line is a path below an immediate child folder of actions/
BelowChildFolder(line) == Len(line) >= 3 /\ line[1] = "actions"

FirstIndex(s, x) == CHOOSE k \in 1..Len(s) : s[k] = x /\ \A m \in 1..(k - 1) : s[m] # x

ChildFolders(lines) == [k \in 1..Len(lines) |->
                          IF BelowChildFolder(lines[k]) THEN <<"actions", lines[k][2]>> ELSE <<>>]

\* C8: getChangedFolders returns exactly the paths actions/<child> of the changed paths
\* below an immediate child folder of actions/, each once, in order of first appearance.
C8_ExactlyChildFolders ==
  (folderStage = "done" /\ gitWorks) =>
    LET want == ChildFolders(gitLines)
    IN /\ Range(folders) = Range(want) \ {<<>>}
       /\ \A a, b \in 1..Len(folders) :
            a < b => /\ folders[a] # folders[b]
                     /\ FirstIndex(want, folders[a]) < FirstIndex(want, folders[b])

====
